---- MODULE Spec2Model ----
(***************************************************************************)
(* RxPond: the RxJS adapter over the callback API of the Actyx Pond.       *)
(*                                                                         *)
(* The facade (wrap, mkEvents) turns every engine operation into an        *)
(* Observable.  The facade keeps no state of its own (wrap closes over the *)
(* pond only), so Observables do not interact and the model follows one    *)
(* facade call: the Observable it returns ("stream"), the subscriptions to *)
(* it, the rxjs Subscriber of each subscription (isStopped, closed,        *)
(* teardown), and the engine as the environment that invokes the callbacks *)
(* the adapter registered.                                                 *)
(***************************************************************************)
EXTENDS Integers, Sequences, FiniteSets, TLC

VARIABLES stream, subs, engineCalls, promise, facade

vars == <<stream, subs, engineCalls, promise, facade>>

\* ---------------------------------------------------------------- bounds
MaxChunks == 3    \* chunks the engine delivers in one chunked query
MaxSubs == 2      \* subscribe calls on the Observable
MaxCalls == 2     \* callback invocations the engine makes, over all registrations
MaxUnsub == 2     \* unsubscribe calls, over all subscriptions
MaxSyncCalls == 4 \* callbacks the engine invokes for one waitForSwarmSync

Values == {"v1", "v2"}   \* payloads the engine passes to a value callback
Errors == {"e1", "e2"}   \* errors the engine passes to an error callback

\* ------------------------------------------------------- notifications
\* What the subscriber's observer receives.
N(kind, val) == [kind |-> kind, val |-> val]

\* One call the adapter's callback makes on the Subscriber `o`:
\* m is the method, a tells where the argument comes from.
SC(m, a) == [m |-> m, a |-> a]

\* ------------------------------------------------------------ wrappers
\* Each wrapper: the engine function it calls, when it calls it ("at"),
\* the callbacks it hands to the engine ("cbs": callback -> the calls it
\* makes on o), the handler chained on the returned promise ("then"),
\* and what the function given to `new Observable` returns ("ret"),
\* which rxjs installs as the teardown of the subscription.

\* Mutant: the confirmation callback forgets o.complete().
wrap_emit_noComplete ==
  [pondFn |-> "pond.emit", at |-> "subscribe",
   cbs |-> [onDone |-> <<SC("next", "undefined")>>],
   then |-> <<>>, promise |-> FALSE, ret |-> "void"]

wrap_emit ==
  [pondFn |-> "pond.emit", at |-> "subscribe",
   cbs |-> [onDone |-> <<SC("next", "undefined"), SC("complete", "none")>>],
   then |-> <<>>, promise |-> FALSE, ret |-> "void"]

\* Mutant: the value callback pushes every state twice.
wrap_observe_twice ==
  [pondFn |-> "pond.observe", at |-> "subscribe",
   cbs |-> [onNext |-> <<SC("next", "arg"), SC("next", "arg")>>,
            onError |-> <<SC("error", "arg")>>],
   then |-> <<>>, promise |-> FALSE, ret |-> "cancel"]

\* Mutant: pond.observe is called by the facade call, outside the Observable.
wrap_observe_hot ==
  [pondFn |-> "pond.observe", at |-> "call",
   cbs |-> [onNext |-> <<SC("next", "arg")>>,
            onError |-> <<SC("error", "arg")>>],
   then |-> <<>>, promise |-> FALSE, ret |-> "cancel"]

wrap_observe ==
  [pondFn |-> "pond.observe", at |-> "subscribe",
   cbs |-> [onNext |-> <<SC("next", "arg")>>,
            onError |-> <<SC("error", "arg")>>],
   then |-> <<>>, promise |-> FALSE, ret |-> "cancel"]

\* Mutant: observeAll hands the engine an error callback as observe does.
wrap_observeAll_withError ==
  [pondFn |-> "pond.observeAll", at |-> "subscribe",
   cbs |-> [onNext |-> <<SC("next", "arg")>>,
            onError |-> <<SC("error", "arg")>>],
   then |-> <<>>, promise |-> FALSE, ret |-> "cancel"]

wrap_observeAll ==
  [pondFn |-> "pond.observeAll", at |-> "subscribe",
   cbs |-> [onNext |-> <<SC("next", "arg")>>],
   then |-> <<>>, promise |-> FALSE, ret |-> "cancel"]

\* Mutant: the error callback pushes the error as a value.
wrap_observeOne_errorAsValue ==
  [pondFn |-> "pond.observeOne", at |-> "subscribe",
   cbs |-> [onNext |-> <<SC("next", "arg")>>,
            onError |-> <<SC("next", "arg")>>],
   then |-> <<>>, promise |-> FALSE, ret |-> "cancel"]

wrap_observeOne ==
  [pondFn |-> "pond.observeOne", at |-> "subscribe",
   cbs |-> [onNext |-> <<SC("next", "arg")>>,
            onError |-> <<SC("error", "arg")>>],
   then |-> <<>>, promise |-> FALSE, ret |-> "cancel"]

\* Mutant: the confirmation callback forgets o.complete().
wrap_run_noComplete ==
  [pondFn |-> "pond.run", at |-> "subscribe",
   cbs |-> [onDone |-> <<SC("next", "undefined")>>],
   then |-> <<>>, promise |-> FALSE, ret |-> "void"]

\* Mutant: the Observable's function returns a cancellation handle of the
\* engine, which unsubscribing invokes.
wrap_run_cancels ==
  [pondFn |-> "pond.run", at |-> "subscribe",
   cbs |-> [onDone |-> <<SC("next", "undefined"), SC("complete", "none")>>],
   then |-> <<>>, promise |-> FALSE, ret |-> "cancel"]

wrap_run ==
  [pondFn |-> "pond.run", at |-> "subscribe",
   cbs |-> [onDone |-> <<SC("next", "undefined"), SC("complete", "none")>>],
   then |-> <<>>, promise |-> FALSE, ret |-> "void"]

\* Mutant: the stream completes with the first chunk.
mkEvents_queryKnownRangeChunked_completesEarly ==
  [pondFn |-> "events.queryKnownRangeChunked", at |-> "subscribe",
   cbs |-> [onNext |-> <<SC("next", "arg"), SC("complete", "none")>>],
   then |-> <<SC("complete", "none")>>, promise |-> TRUE, ret |-> "noop"]

mkEvents_queryKnownRangeChunked ==
  [pondFn |-> "events.queryKnownRangeChunked", at |-> "subscribe",
   cbs |-> [onNext |-> <<SC("next", "arg")>>],
   then |-> <<SC("complete", "none")>>, promise |-> TRUE, ret |-> "noop"]

\* Mutant: the wrapper returns a handle of the engine as the teardown.
mkEvents_queryAllKnownChunked_cancels ==
  [pondFn |-> "events.queryAllKnownChunked", at |-> "subscribe",
   cbs |-> [onNext |-> <<SC("next", "arg")>>],
   then |-> <<SC("complete", "none")>>, promise |-> TRUE, ret |-> "cancel"]

mkEvents_queryAllKnownChunked ==
  [pondFn |-> "events.queryAllKnownChunked", at |-> "subscribe",
   cbs |-> [onNext |-> <<SC("next", "arg")>>],
   then |-> <<SC("complete", "none")>>, promise |-> TRUE, ret |-> "noop"]

\* Mutant: the stream of pond states completes after its first value.
wrap_getPondState_completes ==
  [pondFn |-> "pond.getPondState", at |-> "subscribe",
   cbs |-> [onNext |-> <<SC("next", "arg"), SC("complete", "none")>>],
   then |-> <<>>, promise |-> FALSE, ret |-> "engine"]

\* The Observable's function returns what pond.getPondState returns, which
\* is for the engine to decide.
wrap_getPondState ==
  [pondFn |-> "pond.getPondState", at |-> "subscribe",
   cbs |-> [onNext |-> <<SC("next", "arg")>>],
   then |-> <<>>, promise |-> FALSE, ret |-> "engine"]

\* Mutant: the sync-complete signal is not forwarded.
wrap_waitForSwarmSync_noComplete ==
  [pondFn |-> "pond.waitForSwarmSync", at |-> "subscribe",
   cbs |-> [onProgress |-> <<SC("next", "arg")>>,
            onSyncComplete |-> <<>>],
   then |-> <<>>, promise |-> FALSE, ret |-> "void"]

wrap_waitForSwarmSync ==
  [pondFn |-> "pond.waitForSwarmSync", at |-> "subscribe",
   cbs |-> [onProgress |-> <<SC("next", "arg")>>,
            onSyncComplete |-> <<SC("complete", "none")>>],
   then |-> <<>>, promise |-> FALSE, ret |-> "void"]

\* from(promise): rxjs chains, per subscription, a fulfilment handler that
\* calls next(value) and complete() and a rejection handler that calls
\* error(err) on the promise; the engine function was called by the facade
\* operation and hands over no callback.
NoCallbacks == [slot \in {} |-> <<>>]

mkEvents_currentOffsets ==
  [pondFn |-> "events.currentOffsets", at |-> "call", cbs |-> NoCallbacks,
   then |-> <<SC("next", "arg"), SC("complete", "none")>>,
   catch |-> <<SC("error", "arg")>>, promise |-> FALSE, ret |-> "void"]

\* Mutant: a rejection of the engine's promise ends the stream silently.
mkEvents_queryKnownRange_swallows ==
  [pondFn |-> "events.queryKnownRange", at |-> "call", cbs |-> NoCallbacks,
   then |-> <<SC("next", "arg"), SC("complete", "none")>>,
   catch |-> <<SC("complete", "none")>>, promise |-> FALSE, ret |-> "void"]

mkEvents_queryKnownRange ==
  [pondFn |-> "events.queryKnownRange", at |-> "call", cbs |-> NoCallbacks,
   then |-> <<SC("next", "arg"), SC("complete", "none")>>,
   catch |-> <<SC("error", "arg")>>, promise |-> FALSE, ret |-> "void"]

\* Mutant: events.emit is called when the stream is subscribed, not when
\* the adapter's emit is called.
mkEvents_emit_deferred ==
  [pondFn |-> "events.emit", at |-> "subscribe", cbs |-> NoCallbacks,
   then |-> <<SC("next", "arg"), SC("complete", "none")>>,
   catch |-> <<SC("error", "arg")>>, promise |-> FALSE, ret |-> "void"]

\* events().emit: from(events.emit(e).toPromise()).
mkEvents_emit ==
  [pondFn |-> "events.emit", at |-> "call", cbs |-> NoCallbacks,
   then |-> <<SC("next", "arg"), SC("complete", "none")>>,
   catch |-> <<SC("error", "arg")>>, promise |-> FALSE, ret |-> "void"]

\* Mutant: the stream emits a unit value instead of the query's result.
mkEvents_queryAllKnown_dropsValue ==
  [pondFn |-> "events.queryAllKnown", at |-> "call", cbs |-> NoCallbacks,
   then |-> <<SC("next", "undefined"), SC("complete", "none")>>,
   catch |-> <<SC("error", "arg")>>, promise |-> FALSE, ret |-> "void"]

mkEvents_queryAllKnown ==
  [pondFn |-> "events.queryAllKnown", at |-> "call", cbs |-> NoCallbacks,
   then |-> <<SC("next", "arg"), SC("complete", "none")>>,
   catch |-> <<SC("error", "arg")>>, promise |-> FALSE, ret |-> "void"]

\* Mutant: the Observable's function does not return the engine's handle.
mkEvents_subscribe_dropsHandle ==
  [pondFn |-> "events.subscribe", at |-> "subscribe",
   cbs |-> [onNext |-> <<SC("next", "arg")>>],
   then |-> <<>>, promise |-> FALSE, ret |-> "void"]

mkEvents_subscribe ==
  [pondFn |-> "events.subscribe", at |-> "subscribe",
   cbs |-> [onNext |-> <<SC("next", "arg")>>],
   then |-> <<>>, promise |-> FALSE, ret |-> "cancel"]

mkEvents_observeEarliest ==
  [pondFn |-> "events.observeEarliest", at |-> "subscribe",
   cbs |-> [onNext |-> <<SC("next", "arg")>>],
   then |-> <<>>, promise |-> FALSE, ret |-> "cancel"]

\* Mutant: the stream completes with the first event.
mkEvents_observeLatest_completes ==
  [pondFn |-> "events.observeLatest", at |-> "subscribe",
   cbs |-> [onNext |-> <<SC("next", "arg"), SC("complete", "none")>>],
   then |-> <<>>, promise |-> FALSE, ret |-> "cancel"]

mkEvents_observeLatest ==
  [pondFn |-> "events.observeLatest", at |-> "subscribe",
   cbs |-> [onNext |-> <<SC("next", "arg")>>],
   then |-> <<>>, promise |-> FALSE, ret |-> "cancel"]

mkEvents_observeBestMatch ==
  [pondFn |-> "events.observeBestMatch", at |-> "subscribe",
   cbs |-> [onNext |-> <<SC("next", "arg")>>],
   then |-> <<>>, promise |-> FALSE, ret |-> "cancel"]

mkEvents_observeUnorderedReduce ==
  [pondFn |-> "events.observeUnorderedReduce", at |-> "subscribe",
   cbs |-> [onNext |-> <<SC("next", "arg")>>],
   then |-> <<>>, promise |-> FALSE, ret |-> "cancel"]

EffectOps == {"emit", "run"}
AggregationOps == {"observe", "observeAll", "observeOne"}
OpenEventOps == {"subscribe", "observeEarliest", "observeLatest",
                 "observeBestMatch", "observeUnorderedReduce"}
ChunkedOps == {"queryKnownRangeChunked", "queryAllKnownChunked"}

OneShotOps == {"currentOffsets", "queryKnownRange", "queryAllKnown"}
PromiseOps == OneShotOps \cup {"events_emit"}
HousekeepingOps == {"getPondState", "waitForSwarmSync"}

Ops ==
  EffectOps \cup AggregationOps \cup OpenEventOps \cup ChunkedOps
    \cup PromiseOps \cup HousekeepingOps

\* The facade: operation name -> wrapper.
wrap(op) ==
  CASE op = "emit" -> wrap_emit
    [] op = "observe" -> wrap_observe
    [] op = "observeAll" -> wrap_observeAll
    [] op = "observeOne" -> wrap_observeOne
    [] op = "run" -> wrap_run
    [] op = "queryKnownRangeChunked" -> mkEvents_queryKnownRangeChunked
    [] op = "queryAllKnownChunked" -> mkEvents_queryAllKnownChunked
    [] op = "subscribe" -> mkEvents_subscribe
    [] op = "observeEarliest" -> mkEvents_observeEarliest
    [] op = "observeLatest" -> mkEvents_observeLatest
    [] op = "observeBestMatch" -> mkEvents_observeBestMatch
    [] op = "observeUnorderedReduce" -> mkEvents_observeUnorderedReduce
    [] op = "currentOffsets" -> mkEvents_currentOffsets
    [] op = "queryKnownRange" -> mkEvents_queryKnownRange
    [] op = "queryAllKnown" -> mkEvents_queryAllKnown
    [] op = "events_emit" -> mkEvents_emit
    [] op = "getPondState" -> wrap_getPondState
    [] op = "waitForSwarmSync" -> wrap_waitForSwarmSync

\* ---------------------------------------------------- rxjs Subscriber
\* Mutant: unsubscribing runs the teardown but leaves the Subscriber open.
SubscriptionUnsubscribe_open(sub) ==
  IF sub.closed THEN sub
  ELSE [sub EXCEPT !.closed = TRUE,
                   !.cancelCalls = IF sub.teardown = "cancel" THEN @ + 1 ELSE @]

\* Subscription.unsubscribe: runs the installed teardown once.
SubscriptionUnsubscribe(sub) ==
  IF sub.closed THEN sub
  ELSE [sub EXCEPT !.isStopped = TRUE, !.closed = TRUE,
                   !.cancelCalls = IF sub.teardown = "cancel" THEN @ + 1 ELSE @]

\* The observer's own handler may unsubscribe while it is being called.
UserUnsubscribe(sub) ==
  [SubscriptionUnsubscribe(sub) EXCEPT !.unsubCalls = @ + 1]

\* o.next(v); u: the observer's next handler unsubscribes re-entrantly.
SubscriberNext(sub, v, u) ==
  IF sub.isStopped THEN sub
  ELSE LET d == [sub EXCEPT !.seen = Append(@, N("next", v))]
       IN IF u THEN UserUnsubscribe(d) ELSE d

\* Mutant: o.error(e) notifies the observer but does not unsubscribe.
SubscriberError_keepsRegistration(sub, e) ==
  IF sub.isStopped THEN sub
  ELSE [sub EXCEPT !.isStopped = TRUE, !.seen = Append(@, N("error", e))]

\* o.error(e)
SubscriberError(sub, e) ==
  IF sub.isStopped THEN sub
  ELSE SubscriptionUnsubscribe(
         [sub EXCEPT !.isStopped = TRUE, !.seen = Append(@, N("error", e))])

\* o.complete()
SubscriberComplete(sub) ==
  IF sub.isStopped THEN sub
  ELSE SubscriptionUnsubscribe(
         [sub EXCEPT !.isStopped = TRUE, !.seen = Append(@, N("complete", "none"))])

\* Mutant: a teardown added to a closed subscription is stored, not run.
SubscriptionAdd_leaks(sub, ret) ==
  IF ret = "void" THEN sub ELSE [sub EXCEPT !.teardown = ret]

\* sink.add(teardown): what the Observable's function returned becomes the
\* teardown; on an already closed subscription it is executed at once.
SubscriptionAdd(sub, ret) ==
  IF ret = "void" THEN sub
  ELSE IF sub.closed
       THEN [sub EXCEPT !.cancelCalls = IF ret = "cancel" THEN @ + 1 ELSE @]
       ELSE [sub EXCEPT !.teardown = ret]

\* One call of a callback body on the Subscriber.
ApplyCall(sub, c, arg, u) ==
  LET a == IF c.a = "arg" THEN arg ELSE c.a
  IN CASE c.m = "next" -> SubscriberNext(sub, a, u)
       [] c.m = "error" -> SubscriberError(sub, a)
       [] c.m = "complete" -> SubscriberComplete(sub)

\* The body of a callback: its calls on the Subscriber, in order.
RECURSIVE ApplyCalls(_, _, _, _)
ApplyCalls(sub, calls, arg, u) ==
  IF calls = <<>> THEN sub
  ELSE ApplyCalls(ApplyCall(sub, Head(calls), arg, u), Tail(calls), arg, u)

\* ---------------------------------------------------------------- state
SubIds == 1..MaxSubs

\* stream: the operation whose Observable the facade returned ("none"
\*   before the facade call).
\* subs[s]: one subscription: phase ("free", "registering" while the engine
\*   function is being called, "active" after), the Subscriber's isStopped
\*   and closed, the installed teardown, and the history of the run:
\*   unsubCalls (unsubscribe calls), cancelCalls (calls of the engine's
\*   cancellation handle), seen (what the observer received), fired (the
\*   callbacks the engine invoked and the settling of its promise), late
\*   (emit, run: the engine had already confirmed the pending operation of
\*   an earlier subscription when this one subscribed).
\* engineCalls: calls of the engine function made for the stream.
\* promise: the promise of the engine call made by the facade operation.
\* facade: the RxPond the operations are called on.
FreeSub ==
  [phase |-> "free", isStopped |-> FALSE, closed |-> FALSE,
   teardown |-> "none", unsubCalls |-> 0, cancelCalls |-> 0,
   seen |-> <<>>, fired |-> <<>>, late |-> FALSE]

\* The promise of an engine function that the facade operation itself
\* called (the one-shot queries).
NoPromise == [state |-> "none", val |-> "none"]
Pending == [state |-> "pending", val |-> "none"]

\* The facade: how it was obtained (entry), whether the construction call
\* has resolved (state), the pond it wraps, the outcome of the engine's
\* startup and the error the construction call rejected with.
Facade(state, entry, pond, startup, err) ==
  [state |-> state, entry |-> entry, pond |-> pond, startup |-> startup,
   err |-> err]

\* RxPond.from(pond): wraps the given pond at once.
RxPond_from == Facade("ready", "from", "given", "none", "none")

\* An engine startup outcome: "ok" or the error Pond.default / Pond.of
\* rejected with.
StartupOutcomes == {"ok"} \cup Errors

\* Mutant: a failed startup is swallowed and a facade is handed out.
RxPond_default_swallows(startup) ==
  Facade("ready", "default", IF startup = "ok" THEN "created" ELSE "none",
         startup, "none")

\* RxPond.default(manifest): wrap(await Pond.default(manifest)).  A
\* rejection of the awaited promise rejects the call with the same error,
\* before wrap is reached.
RxPond_default(startup) ==
  IF startup = "ok"
  THEN Facade("ready", "default", "created", startup, "none")
  ELSE Facade("rejected", "default", "none", startup, startup)

\* RxPond.of(params): wrap(await Pond.of(...params)).
RxPond_of(startup) ==
  IF startup = "ok"
  THEN Facade("ready", "of", "created", startup, "none")
  ELSE Facade("rejected", "of", "none", startup, startup)

NoSubs ==
  /\ stream = "none"
  /\ subs = [s \in SubIds |-> FreeSub]
  /\ engineCalls = 0
  /\ promise = NoPromise

\* A facade obtained with RxPond.from(pond), no operation called yet.
Init ==
  /\ NoSubs
  /\ facade = RxPond_from

RECURSIVE SumOver(_, _)
SumOver(f, S) ==
  IF S = {} THEN 0
  ELSE LET x == CHOOSE y \in S : TRUE IN f[x] + SumOver(f, S \ {x})

\* Callback invocations made so far, and unsubscribe calls made so far.
TotalFired == SumOver([s \in SubIds |-> Len(subs[s].fired)], SubIds)
TotalUnsub == SumOver([s \in SubIds |-> subs[s].unsubCalls], SubIds)

\* The promise the engine returned for subscription s has settled.
Settled(sub) ==
  \E i \in 1..Len(sub.fired) : sub.fired[i].slot \in {"fulfilled", "rejected"}

\* JavaScript runs one call stack at a time: while the engine function of
\* subscription s is being called, only what that call does can happen.
InCall(s) == subs[s].phase = "registering"
Idle == \A s \in SubIds : ~InCall(s)

\* Arguments the engine can pass to a callback.
ArgsOf(slot) ==
  CASE slot = "onNext" -> Values
    [] slot = "onError" -> Errors
    [] slot = "onDone" -> {"undefined"}
    [] slot = "onProgress" -> Values
    [] slot = "onSyncComplete" -> {"undefined"}

Slots == {"onNext", "onError", "onDone", "onProgress", "onSyncComplete"}

\* The operations of the engine that hand out values over time, which the
\* facade is to mirror under the same names: those the facade has, and
\* getNodeConnectivity.
PondStreamOps == Ops \cup {"getNodeConnectivity"}

\* The member of the object wrap returns that is looked up for a name.
Member(op) == IF op \in Ops THEN "function" ELSE "undefined"

\* What the engine function can return to the Observable's function.
Returned(ret) == IF ret = "engine" THEN {"void", "cancel"} ELSE {ret}

\* ---------------------------------------------------------------- actions
\* A facade call: returns a new Observable.  The engine function is called
\* here only by a wrapper that calls it outside `new Observable`.
Call(op) ==
  /\ facade.state = "ready"
  /\ stream = "none"
  /\ stream' = op
  /\ engineCalls' = IF wrap(op).at = "call" THEN engineCalls + 1 ELSE engineCalls
  /\ promise' = IF wrap(op).at = "call" THEN Pending ELSE promise
  /\ UNCHANGED <<subs, facade>>

\* observable.subscribe(): rxjs creates the Subscriber and runs the
\* function given to `new Observable`, which calls the engine function and
\* hands it the callbacks.  The engine call has not returned yet.
Subscribe(s) ==
  /\ stream \in Ops
  /\ Idle
  /\ subs[s].phase = "free"
  /\ \A t \in SubIds : t < s => subs[t].phase # "free"
  /\ subs' = [subs EXCEPT ![s] =
       [FreeSub EXCEPT !.phase = "registering",
          !.late = \/ stream \in EffectOps /\ \E t \in SubIds : subs[t].fired # <<>>
                   \/ promise.state \in {"fulfilled", "rejected"}]]
  /\ engineCalls' = IF wrap(stream).at = "subscribe"
                    THEN engineCalls + 1 ELSE engineCalls
  /\ UNCHANGED <<stream, promise, facade>>

\* A call of a member the facade object does not have: calling undefined
\* throws a TypeError and no Observable is returned.
CallMissing(op) ==
  /\ facade.state = "ready"
  /\ stream = "none"
  /\ Member(op) = "undefined"
  /\ stream' = "TypeError"
  /\ UNCHANGED <<subs, engineCalls, promise, facade>>

\* The engine call returns; rxjs adds what the function returned as the
\* teardown of the subscription.
SubscribeReturn(s) ==
  /\ subs[s].phase = "registering"
  /\ \E r \in Returned(wrap(stream).ret) :
       subs' = [subs EXCEPT ![s] =
         [SubscriptionAdd(subs[s], r) EXCEPT !.phase = "active"]]
  /\ UNCHANGED <<stream, engineCalls, promise, facade>>

\* The engine invokes a callback the adapter registered (also during the
\* registration call, and also after cancellation): the callback's body
\* runs on the Subscriber.  A chunked query delivers its chunks before its
\* promise settles.
Invoke(s, slot, arg, u) ==
  /\ subs[s].phase \in {"registering", "active"}
  /\ \A t \in SubIds \ {s} : ~InCall(t)
  /\ ~Settled(subs[s])
  /\ slot \in DOMAIN wrap(stream).cbs
  /\ arg \in ArgsOf(slot)
  /\ u => TotalUnsub < MaxUnsub
  /\ subs' = [subs EXCEPT ![s] =
       [ApplyCalls(subs[s], wrap(stream).cbs[slot], arg, u)
          EXCEPT !.fired = Append(subs[s].fired, [slot |-> slot, arg |-> arg])]]
  /\ UNCHANGED <<stream, engineCalls, promise, facade>>

\* The engine confirms every pending operation; MaxCalls bounds all other
\* invocations.
EngineCallback(s, slot, arg, u) ==
  /\ \/ TotalFired < MaxCalls
     \/ slot = "onDone" /\ subs[s].fired = <<>>
  /\ Invoke(s, slot, arg, u)

\* Mutant: the handler runs on rejection as well as on fulfilment.
Settle_finally(s, outcome) ==
  /\ Idle
  /\ subs[s].phase = "active"
  /\ wrap(stream).promise
  /\ ~Settled(subs[s])
  /\ subs' = [subs EXCEPT ![s] =
       [ApplyCalls(subs[s], wrap(stream).then, "undefined", FALSE)
          EXCEPT !.fired = Append(subs[s].fired, [slot |-> outcome, arg |-> "none"])]]
  /\ UNCHANGED <<stream, engineCalls, promise, facade>>

\* The promise the engine returned settles; a `.then` handler runs after
\* the current call stack, so not before the subscribe call returned.  The
\* wrapper chains a handler for fulfilment only.
Settle(s, outcome) ==
  /\ Idle
  /\ subs[s].phase = "active"
  /\ wrap(stream).promise
  /\ ~Settled(subs[s])
  /\ subs' = [subs EXCEPT ![s] =
       [(IF outcome = "fulfilled"
           THEN ApplyCalls(subs[s], wrap(stream).then, "undefined", FALSE)
           ELSE subs[s])
          EXCEPT !.fired = Append(subs[s].fired, [slot |-> outcome, arg |-> "none"])]]
  /\ UNCHANGED <<stream, engineCalls, promise, facade>>

\* The settling counts as one of the MaxCalls invocations.
PromiseSettle(s, outcome) ==
  /\ TotalFired < MaxCalls
  /\ Settle(s, outcome)

\* What the engine's promise can be fulfilled with: the result of a query,
\* nothing for an emission (Promise<void>).
PromiseValues(op) == IF op = "events_emit" THEN {"undefined"} ELSE Values

\* The promise of a one-shot query or of an emission settles.
PromiseResolves(outcome, val) ==
  /\ Idle
  /\ promise.state = "pending"
  /\ val \in (IF outcome = "fulfilled" THEN PromiseValues(stream) ELSE Errors)
  /\ promise' = [state |-> outcome, val |-> val]
  /\ UNCHANGED <<stream, subs, engineCalls, facade>>

\* The handler that from(promise) chained for subscription s runs, after
\* the promise settled and after the subscribe call returned.
PromiseHandler(s, u) ==
  /\ Idle
  /\ stream \in Ops
  /\ wrap(stream).at = "call"
  /\ subs[s].phase = "active"
  /\ promise.state \in {"fulfilled", "rejected"}
  /\ ~Settled(subs[s])
  /\ u => TotalUnsub < MaxUnsub
  /\ subs' = [subs EXCEPT ![s] =
       [ApplyCalls(subs[s],
                   IF promise.state = "fulfilled"
                   THEN wrap(stream).then ELSE wrap(stream).catch,
                   promise.val, u)
          EXCEPT !.fired = Append(subs[s].fired,
                                  [slot |-> promise.state, arg |-> promise.val])]]
  /\ UNCHANGED <<stream, engineCalls, promise, facade>>

\* Mutant: the subscriptions share one teardown, so that unsubscribing one
\* closes every subscription of the stream.
Unsubscribe_all(s) ==
  /\ Idle
  /\ subs[s].phase = "active"
  /\ TotalUnsub < MaxUnsub
  /\ subs' = [t \in SubIds |->
       IF t = s THEN UserUnsubscribe(subs[t])
       ELSE IF subs[t].phase = "active" THEN SubscriptionUnsubscribe(subs[t])
       ELSE subs[t]]
  /\ UNCHANGED <<stream, engineCalls, promise, facade>>

\* subscription.unsubscribe() by the subscriber.
Unsubscribe(s) ==
  /\ Idle
  /\ subs[s].phase = "active"
  /\ TotalUnsub < MaxUnsub
  /\ subs' = [subs EXCEPT ![s] = UserUnsubscribe(subs[s])]
  /\ UNCHANGED <<stream, engineCalls, promise, facade>>

Next ==
  \/ \E op \in Ops : Call(op)
  \/ \E op \in PondStreamOps : CallMissing(op)
  \/ \E s \in SubIds : Subscribe(s)
  \/ \E s \in SubIds : SubscribeReturn(s)
  \/ /\ stream \in Ops
     /\ \E s \in SubIds, slot \in Slots \cap DOMAIN wrap(stream).cbs :
          \E arg \in ArgsOf(slot), u \in BOOLEAN : EngineCallback(s, slot, arg, u)
  \/ \E s \in SubIds, outcome \in {"fulfilled", "rejected"} : PromiseSettle(s, outcome)
  \/ \E outcome \in {"fulfilled", "rejected"},
          val \in Values \cup Errors \cup {"undefined"} :
       PromiseResolves(outcome, val)
  \/ \E s \in SubIds, u \in BOOLEAN : PromiseHandler(s, u)
  \/ \E s \in SubIds : Unsubscribe(s)

Spec == Init /\ [][Next]_vars

\* The engine confirms the pending emission or effect of subscription s.
Confirm(s) ==
  /\ stream \in EffectOps
  /\ subs[s].fired = <<>>
  /\ \E u \in BOOLEAN : EngineCallback(s, "onDone", "undefined", u)

\* emit and run alone, with an engine that confirms every pending
\* operation it is given and returns from every call.
NextEffect ==
  \/ \E op \in EffectOps : Call(op)
  \/ \E s \in SubIds : Subscribe(s)
  \/ \E s \in SubIds : SubscribeReturn(s)
  \/ \E s \in SubIds, u \in BOOLEAN : EngineCallback(s, "onDone", "undefined", u)
  \/ \E s \in SubIds : Unsubscribe(s)

FairSpec ==
  /\ Init
  /\ [][NextEffect]_vars
  /\ \A s \in SubIds : WF_vars(SubscribeReturn(s)) /\ WF_vars(Confirm(s))

\* Construction: no facade yet; it is obtained through one of the three
\* entry points, and emit and run are then called on it.
NoFacade == Facade("none", "none", "none", "none", "none")

InitConstruct ==
  /\ NoSubs
  /\ facade = NoFacade

ConstructFrom ==
  /\ facade = NoFacade
  /\ facade' = RxPond_from
  /\ UNCHANGED <<stream, subs, engineCalls, promise>>

\* The async entry point is called: it calls the engine's constructor and
\* awaits it.
ConstructBegin(entry) ==
  /\ facade = NoFacade
  /\ facade' = Facade("starting", entry, "none", "none", "none")
  /\ UNCHANGED <<stream, subs, engineCalls, promise>>

\* The engine's startup settles and the awaiting entry point continues.
EngineStartup(startup) ==
  /\ facade.state = "starting"
  /\ facade' = IF facade.entry = "default"
               THEN RxPond_default(startup) ELSE RxPond_of(startup)
  /\ UNCHANGED <<stream, subs, engineCalls, promise>>

NextConstruct ==
  \/ ConstructFrom
  \/ \E entry \in {"default", "of"} : ConstructBegin(entry)
  \/ \E startup \in StartupOutcomes : EngineStartup(startup)
  \/ NextEffect

ConstructSpec == InitConstruct /\ [][NextConstruct]_vars

\* An engine that invokes the callbacks synchronously, inside its
\* registration call, before it has returned the cancellation handle.
EngineSyncCallback(s, slot, arg, u) ==
  /\ subs[s].phase = "registering"
  /\ EngineCallback(s, slot, arg, u)

NextReentrant ==
  \/ \E op \in AggregationOps \cup OpenEventOps : Call(op)
  \/ \E s \in SubIds : Subscribe(s)
  \/ \E s \in SubIds : SubscribeReturn(s)
  \/ \E s \in SubIds, slot \in {"onNext", "onError"} :
       \E arg \in ArgsOf(slot), u \in BOOLEAN : EngineSyncCallback(s, slot, arg, u)
  \/ \E s \in SubIds : Unsubscribe(s)

ReentrantSpec == Init /\ [][NextReentrant]_vars

\* waitForSwarmSync followed through several callbacks: one subscription
\* and up to MaxSyncCalls invocations of onProgress and onSyncComplete, in
\* any order.
EngineSync(s, slot, arg, u) ==
  /\ Len(subs[s].fired) < MaxSyncCalls
  /\ Invoke(s, slot, arg, u)

NextSync ==
  \/ Call("waitForSwarmSync")
  \/ Subscribe(1)
  \/ SubscribeReturn(1)
  \/ \E slot \in {"onProgress", "onSyncComplete"} :
       \E arg \in ArgsOf(slot), u \in BOOLEAN : EngineSync(1, slot, arg, u)
  \/ Unsubscribe(1)

SyncSpec == Init /\ [][NextSync]_vars

\* One chunked query followed to its end: one subscription, up to
\* MaxChunks chunks, and a promise that settles.
Chunks(f) == SelectSeq(f, LAMBDA e : e.slot = "onNext")

EngineChunk(s, arg, u) ==
  /\ Len(Chunks(subs[s].fired)) < MaxChunks
  /\ Invoke(s, "onNext", arg, u)

NextChunked ==
  \/ \E op \in ChunkedOps : Call(op)
  \/ Subscribe(1)
  \/ SubscribeReturn(1)
  \/ \E arg \in Values, u \in BOOLEAN : EngineChunk(1, arg, u)
  \/ \E outcome \in {"fulfilled", "rejected"} : Settle(1, outcome)
  \/ Unsubscribe(1)

ChunkedSpec == Init /\ [][NextChunked]_vars

\* ------------------------------------------------------------------ claims
Attached(s) == subs[s].phase # "free"
Undefined == N("next", "undefined")
Complete == N("complete", "none")
CancellableOps == AggregationOps \cup OpenEventOps
ErrorChannelOps == {"observe", "observeOne"}
NoErrorChannelOps == {"observeAll"} \cup OpenEventOps \cup ChunkedOps

HasError(f) == \E i \in 1..Len(f) : f[i].slot = "onError"
FirstError(f) ==
  CHOOSE i \in 1..Len(f) :
    f[i].slot = "onError" /\ \A j \in 1..(i - 1) : f[j].slot # "onError"

\* C1: once the facade call emit(tags, event) or run(fish, effect) has
\* returned, the engine operation has been invoked, also when no observer
\* ever subscribes to the returned stream.
C1_EffectAtCallTime ==
  stream \in EffectOps => engineCalls >= 1

\* C2: for one call of emit or run, the engine operation is invoked at most
\* once, however many times the returned stream is subscribed.
C2_EffectAtMostOnce ==
  stream \in EffectOps => engineCalls <= 1

\* C3: every observer that attaches to the stream of emit or run and stays
\* subscribed eventually receives the single value followed by completion,
\* also one that attaches after the engine confirmed an earlier pending
\* operation; the engine confirms every pending operation.
C3_EveryObserverCompletes ==
  \A s \in SubIds :
    [](Attached(s) =>
         <>(subs[s].unsubCalls > 0 \/ subs[s].seen = <<Undefined, Complete>>))

C3_Witness ==
  \E s \in SubIds :
    /\ subs[s].late
    /\ subs[s].unsubCalls = 0
    /\ subs[s].seen = <<Undefined, Complete>>

\* C4: a subscriber of emit or run receives exactly the one value undefined
\* when the engine confirms, completion right after it, and nothing more,
\* also when the engine invokes the confirmation callback again.
C4_SingleUndefined ==
  stream \in EffectOps =>
    \A s \in SubIds :
      /\ subs[s].seen \in {<<>>, <<Undefined>>, <<Undefined, Complete>>}
      /\ subs[s].fired = <<>> => subs[s].seen = <<>>
      /\ (subs[s].fired # <<>> /\ subs[s].unsubCalls = 0)
            => subs[s].seen = <<Undefined, Complete>>

C4_Witness ==
  /\ stream \in EffectOps
  /\ \E s \in SubIds :
       Len(subs[s].fired) >= 2 /\ subs[s].seen = <<Undefined, Complete>>

\* C5: a subscription to observe(fish) that is neither unsubscribed nor
\* terminated has received exactly the values the engine delivered to
\* onNext, in the same order.
C5_ObserveInOrder ==
  stream = "observe" =>
    \A s \in SubIds :
      (subs[s].unsubCalls = 0 /\ ~HasError(subs[s].fired)) =>
        subs[s].seen =
          [i \in 1..Len(subs[s].fired) |-> N("next", subs[s].fired[i].arg)]

C5_Witness ==
  /\ stream = "observe"
  /\ \E s \in SubIds :
       /\ subs[s].unsubCalls = 0
       /\ Len(subs[s].seen) = 2
       /\ subs[s].seen[1].kind = "next" /\ subs[s].seen[2].kind = "next"
       /\ subs[s].seen[1].val # subs[s].seen[2].val

\* C6: for every subscription to a cancellable stream, unsubscribing invokes
\* the engine's cancellation handle exactly once: never twice, and once the
\* subscribe call has returned never zero times, also when unsubscribe is
\* called repeatedly or before any value arrived.
C6_CancelExactlyOnce ==
  stream \in CancellableOps =>
    \A s \in SubIds :
      /\ subs[s].cancelCalls <= 1
      /\ (subs[s].phase = "active" /\ subs[s].unsubCalls >= 1)
            => subs[s].cancelCalls = 1

C6_Witness ==
  /\ stream \in CancellableOps
  /\ \E s \in SubIds :
       /\ subs[s].fired = <<>>
       /\ subs[s].unsubCalls >= 2
       /\ subs[s].cancelCalls = 1

\* A step in which no unsubscribed subscriber of a cancellable stream
\* receives anything.
SilentAfterUnsubscribe ==
  stream \in CancellableOps =>
    \A s \in SubIds :
      subs[s].unsubCalls >= 1 => subs'[s].seen = subs[s].seen

\* C7: once a subscriber of a cancellable stream has unsubscribed, it
\* receives nothing more, whatever callbacks the engine still invokes.
C7_NothingAfterUnsubscribe ==
  [][SilentAfterUnsubscribe]_vars

C7_Witness ==
  /\ stream \in CancellableOps
  /\ \E s \in SubIds :
       /\ subs[s].unsubCalls >= 1
       /\ ~HasError(subs[s].fired)
       /\ Len(subs[s].fired) > Len(subs[s].seen)

\* C8: for observe and observeOne, when the engine invokes the error
\* callback with e, the stream terminates with exactly e, and the
\* subscriber receives nothing after it.
C8_ErrorTerminates ==
  stream \in ErrorChannelOps =>
    \A s \in SubIds :
      LET f == subs[s].fired
          sn == subs[s].seen
      IN /\ \A i \in 1..Len(sn) :
              sn[i].kind = "error" =>
                /\ i = Len(sn)
                /\ HasError(f)
                /\ sn[i].val = f[FirstError(f)].arg
         /\ (HasError(f) /\ subs[s].unsubCalls = 0) =>
              sn = [i \in 1..FirstError(f) |->
                      IF i < FirstError(f)
                      THEN N("next", f[i].arg)
                      ELSE N("error", f[i].arg)]

C8_Witness ==
  /\ stream \in ErrorChannelOps
  /\ \E s \in SubIds :
       /\ Len(subs[s].fired) >= 2
       /\ subs[s].fired[1].slot = "onError"
       /\ subs[s].seen = <<N("error", subs[s].fired[1].arg)>>

\* C9: a stream of an engine operation without error callback never
\* delivers an error notification to a subscriber.
C9_NoErrorSynthesized ==
  stream \in NoErrorChannelOps =>
    \A s \in SubIds :
      \A i \in 1..Len(subs[s].seen) : subs[s].seen[i].kind # "error"

C9_Witness ==
  /\ stream \in ChunkedOps
  /\ \E s \in SubIds :
       /\ subs[s].unsubCalls = 0
       /\ Len(subs[s].fired) >= 2
       /\ subs[s].fired[Len(subs[s].fired)].slot = "rejected"
       /\ Len(subs[s].seen) = Len(subs[s].fired) - 1

\* C10: observe, observeAll and observeOne are cold: the facade call alone
\* registers nothing with the engine, and every subscribe makes exactly one
\* registration call, so registrations equal subscribe calls.
C10_ColdPerSubscription ==
  stream \in AggregationOps =>
    engineCalls = Cardinality({s \in SubIds : Attached(s)})

C10_Witness ==
  /\ stream \in AggregationOps
  /\ engineCalls = 2
  /\ Cardinality({s \in SubIds : Attached(s)}) = 2

\* What a subscriber that stays subscribed has received of a chunked
\* query whose engine callbacks were f.
ChunkedExpected(f) ==
  [i \in 1..Len(Chunks(f)) |-> N("next", Chunks(f)[i].arg)]
    \o (IF f # <<>> /\ f[Len(f)].slot = "fulfilled" THEN <<Complete>> ELSE <<>>)

\* C11: a subscriber of a chunked query that stays subscribed receives one
\* emission per chunk the engine passed to onChunk, in the engine's order,
\* and the completion only once the engine's promise has resolved, after
\* the last chunk.
C11_ChunksThenComplete ==
  stream \in ChunkedOps =>
    \A s \in SubIds :
      subs[s].unsubCalls = 0 => subs[s].seen = ChunkedExpected(subs[s].fired)

C11_Witness ==
  /\ stream \in ChunkedOps
  /\ \E s \in SubIds :
       /\ subs[s].unsubCalls = 0
       /\ Len(subs[s].seen) = 4
       /\ subs[s].seen[1].val # subs[s].seen[2].val
       /\ subs[s].seen[4] = Complete

\* A step of a chunked query that calls no cancellation handle and hands
\* nothing to a subscriber that has unsubscribed.
ChunkedUnsubscribeIsLocal ==
  stream \in ChunkedOps =>
    \A s \in SubIds :
      /\ subs'[s].cancelCalls = 0
      /\ subs[s].unsubCalls >= 1 => subs'[s].seen = subs[s].seen

\* C12: unsubscribing from a chunked query forwards nothing to the engine,
\* which goes on delivering chunks and resolves its promise; it only stops
\* local delivery: no further chunk and no completion reach the subscriber.
C12_UnsubscribeStopsLocalDeliveryOnly ==
  [][ChunkedUnsubscribeIsLocal]_vars

C12_Witness ==
  /\ stream \in ChunkedOps
  /\ \E s \in SubIds :
       /\ subs[s].unsubCalls >= 1
       /\ subs[s].cancelCalls = 0
       /\ Len(subs[s].seen) = 1
       /\ Len(subs[s].fired) >= 3
       /\ subs[s].fired[Len(subs[s].fired)].slot = "fulfilled"

\* C13: the streams of events().subscribe, observeEarliest, observeLatest,
\* observeBestMatch and observeUnorderedReduce never complete: no subscriber
\* receives a completion, whatever callbacks the engine invokes.
C13_OpenStreamsNeverComplete ==
  stream \in OpenEventOps =>
    \A s \in SubIds :
      \A i \in 1..Len(subs[s].seen) : subs[s].seen[i].kind # "complete"

C13_Witness ==
  /\ stream \in OpenEventOps
  /\ \E s \in SubIds :
       /\ Len(subs[s].fired) >= 2
       /\ Len(subs[s].seen) = Len(subs[s].fired)

\* C14: when the engine's promise of currentOffsets, queryKnownRange or
\* queryAllKnown resolves with v, a subscriber that drains the stream has
\* collected exactly [v], followed by completion, and nothing before.
C14_OneShotRoundTrip ==
  stream \in OneShotOps =>
    \A s \in SubIds :
      /\ ~Settled(subs[s]) => subs[s].seen = <<>>
      /\ (subs[s].unsubCalls = 0 /\ Settled(subs[s])
            /\ promise.state = "fulfilled")
           => subs[s].seen = <<N("next", promise.val), Complete>>

C14_Witness ==
  /\ stream \in OneShotOps
  /\ promise.state = "fulfilled"
  /\ \A s \in SubIds : subs[s].seen = <<N("next", promise.val), Complete>>

\* What a subscriber that stays subscribed has received of waitForSwarmSync
\* when the engine's callbacks were f: one value per onProgress before the
\* first onSyncComplete, then the completion.
SyncDone(f) == {i \in 1..Len(f) : f[i].slot = "onSyncComplete"}
FirstSyncDone(f) ==
  IF SyncDone(f) = {} THEN Len(f) + 1
  ELSE CHOOSE i \in SyncDone(f) : \A j \in SyncDone(f) : i <= j

SyncExpected(f) ==
  LET before == SubSeq(f, 1, FirstSyncDone(f) - 1)
  IN [i \in 1..Len(before) |-> N("next", before[i].arg)]
       \o (IF SyncDone(f) = {} THEN <<>> ELSE <<Complete>>)

\* C15: a subscriber of waitForSwarmSync receives one value per onProgress
\* the engine invoked before the first onSyncComplete, then one completion
\* and nothing after it, also when the engine invokes onProgress or
\* onSyncComplete again; it never receives an error.
C15_ProgressThenCompleteOnce ==
  stream = "waitForSwarmSync" =>
    \A s \in SubIds :
      /\ \A i \in 1..Len(subs[s].seen) :
           /\ subs[s].seen[i].kind # "error"
           /\ subs[s].seen[i].kind = "complete" => i = Len(subs[s].seen)
      /\ subs[s].unsubCalls = 0 => subs[s].seen = SyncExpected(subs[s].fired)

C15_Witness ==
  /\ stream = "waitForSwarmSync"
  /\ subs[1].unsubCalls = 0
  /\ Len(subs[1].fired) = 4
  /\ subs[1].fired[1].slot = "onProgress"
  /\ subs[1].fired[2].slot = "onSyncComplete"
  /\ subs[1].fired[3].slot = "onProgress"
  /\ subs[1].fired[4].slot = "onSyncComplete"
  /\ subs[1].seen = <<N("next", subs[1].fired[1].arg), Complete>>

\* C20: getPondState registers with the engine once per subscribe and not
\* before; a subscriber that stays subscribed has received exactly the
\* states the engine passed to the callback, in the engine's order, and the
\* stream never completes or errors.
C20_PondStateContinuous ==
  stream = "getPondState" =>
    /\ engineCalls = Cardinality({s \in SubIds : Attached(s)})
    /\ \A s \in SubIds :
         /\ \A i \in 1..Len(subs[s].seen) : subs[s].seen[i].kind = "next"
         /\ subs[s].unsubCalls = 0 =>
              subs[s].seen =
                [i \in 1..Len(subs[s].fired) |-> N("next", subs[s].fired[i].arg)]

C20_Witness ==
  /\ stream = "getPondState"
  /\ engineCalls = 2
  /\ \E s \in SubIds :
       /\ subs[s].unsubCalls = 0
       /\ subs[s].seen = <<N("next", "v2"), N("next", "v1")>>

\* C16: RxPond.default and RxPond.of reject with the engine's startup
\* error when the engine's startup fails, and then no facade exists and no
\* stream is created or errored; when the startup succeeds they resolve to
\* a facade wrapping the newly created engine.
C16_ConstructionFailureRejects ==
  facade.entry \in {"default", "of"} =>
    /\ facade.startup \in Errors =>
         /\ facade.state = "rejected"
         /\ facade.err = facade.startup
         /\ facade.pond = "none"
    /\ facade.startup = "ok" =>
         /\ facade.state = "ready"
         /\ facade.pond = "created"
    /\ facade.state # "ready" => NoSubs

C16_Witness ==
  /\ facade.entry = "default"
  /\ facade.state = "rejected"
  /\ facade.err = "e2"
  /\ NoSubs

\* An unsubscribe from the stream of emit or run calls nothing of the
\* engine: no engine call is made and no cancellation handle is invoked.
EffectUnsubscribeInert ==
  stream \in EffectOps =>
    \A s \in SubIds :
      /\ subs'[s].cancelCalls = 0
      /\ subs'[s].teardown = "none"
      /\ subs'[s].unsubCalls > subs[s].unsubCalls
           => engineCalls' = engineCalls

\* C17: unsubscribing from the stream of emit or run does not cancel the
\* engine's side effect: the unsubscribe invokes no engine operation, and
\* the engine still confirms the pending emission or effect afterwards.
C17_UnsubscribeDoesNotCancelEffect ==
  /\ [][EffectUnsubscribeInert]_vars
  /\ \A s \in SubIds : [](Attached(s) => <>(subs[s].fired # <<>>))

C17_Witness ==
  /\ stream \in EffectOps
  /\ \E s \in SubIds :
       /\ subs[s].unsubCalls > 0
       /\ subs[s].seen = <<>>
       /\ subs[s].fired # <<>>

\* C19: the facade mirrors every engine operation under the same name,
\* getNodeConnectivity included: a call of any of them on the facade
\* returns the stream of that operation.
C19_MirrorsEveryEngineOperation ==
  stream \in {"none"} \cup PondStreamOps

\* C21: when the engine's promise of currentOffsets, queryKnownRange,
\* queryAllKnown or events().emit rejects with e, no subscriber receives a
\* value or a completion, and every subscriber that is still subscribed
\* when its handler runs receives exactly the terminal error e.
C21_RejectionPropagates ==
  (stream \in PromiseOps /\ promise.state = "rejected") =>
    \A s \in SubIds :
      /\ \A i \in 1..Len(subs[s].seen) :
           subs[s].seen[i] = N("error", promise.val)
      /\ (subs[s].unsubCalls = 0 /\ Settled(subs[s]))
           => subs[s].seen = <<N("error", promise.val)>>

C21_Witness ==
  /\ stream = "events_emit"
  /\ promise.state = "rejected"
  /\ \A s \in SubIds : subs[s].seen = <<N("error", promise.val)>>

\* C23: a promise-backed operation of the event adapter calls the engine
\* exactly once, when the adapter operation is called, for zero, one or
\* many subscribers; every subscriber that stays subscribed, attached
\* before or after the promise settled, receives the resolved value
\* followed by completion.
C23_PromiseOpsCallEngineOnce ==
  stream \in PromiseOps =>
    /\ engineCalls = 1
    /\ promise.state = "fulfilled" =>
         \A s \in SubIds :
           (subs[s].unsubCalls = 0 /\ Settled(subs[s]))
             => subs[s].seen = <<N("next", promise.val), Complete>>

C23_Witness ==
  /\ stream \in PromiseOps
  /\ engineCalls = 1
  /\ promise.state = "fulfilled"
  /\ ~subs[1].late /\ subs[2].late
  /\ \A s \in SubIds : subs[s].seen = <<N("next", promise.val), Complete>>

\* C22: when the engine invokes the error callback of observe or
\* observeOne on a live subscription, the cancellation handle of that
\* subscription is invoked exactly once as part of the error termination,
\* and a later unsubscribe does not invoke it again.
C22_ErrorReleasesRegistration ==
  stream \in ErrorChannelOps =>
    \A s \in SubIds :
      /\ subs[s].cancelCalls <= 1
      /\ (subs[s].phase = "active"
            /\ \E i \in 1..Len(subs[s].seen) : subs[s].seen[i].kind = "error")
           => subs[s].cancelCalls = 1

C22_Witness ==
  /\ stream \in ErrorChannelOps
  /\ \E s \in SubIds :
       /\ subs[s].phase = "active"
       /\ subs[s].seen # <<>>
       /\ subs[s].seen[Len(subs[s].seen)].kind = "error"
       /\ subs[s].unsubCalls >= 1
       /\ subs[s].cancelCalls = 1

\* C24: when the promise of a chunked query rejects, the subscriber
\* receives neither an error nor a completion: it keeps exactly the chunks
\* already delivered and its subscription stays open.
C24_ChunkedRejectionIsSilent ==
  stream \in ChunkedOps =>
    \A s \in SubIds :
      (subs[s].fired # <<>>
         /\ subs[s].fired[Len(subs[s].fired)].slot = "rejected") =>
        /\ \A i \in 1..Len(subs[s].seen) : subs[s].seen[i].kind = "next"
        /\ subs[s].unsubCalls = 0 =>
             /\ ~subs[s].isStopped /\ ~subs[s].closed
             /\ subs[s].seen =
                  [i \in 1..Len(Chunks(subs[s].fired)) |->
                     N("next", Chunks(subs[s].fired)[i].arg)]

C24_Witness ==
  /\ stream \in ChunkedOps
  /\ subs[1].unsubCalls = 0
  /\ Len(subs[1].fired) = 3
  /\ subs[1].fired[3].slot = "rejected"
  /\ Len(subs[1].seen) = 2
  /\ ~subs[1].isStopped

\* A step of a cancellable stream whose engine calls back inside the
\* registration call: the handle is not invoked while the call is running,
\* it is invoked exactly once when the call returns to a subscription that
\* was closed meanwhile, and a closed subscription receives nothing.
ReentrantNoLeak ==
  stream \in CancellableOps =>
    \A s \in SubIds :
      /\ subs[s].phase = "registering" => subs[s].cancelCalls = 0
      /\ (subs[s].phase = "registering" /\ subs'[s].phase = "active")
           => subs'[s].cancelCalls = IF subs[s].closed THEN 1 ELSE 0
      /\ subs'[s].cancelCalls <= 1
      /\ subs[s].closed => subs'[s].seen = subs[s].seen

\* C25: when the engine invokes the value or error callback synchronously
\* inside its registration call and the subscriber unsubscribes, or the
\* stream errors, during that callback, the cancellation handle is invoked
\* exactly once as soon as the registration call returns, and the
\* subscriber receives nothing after its unsubscribe.
C25_SynchronousCallbackNoLeak ==
  [][ReentrantNoLeak]_vars

C25_Witness ==
  /\ stream \in CancellableOps
  /\ \E s \in SubIds :
       /\ subs[s].phase = "active"
       /\ subs[s].unsubCalls = 1
       /\ Len(subs[s].fired) = 2
       /\ ~HasError(subs[s].fired)
       /\ Len(subs[s].seen) = 1
       /\ subs[s].cancelCalls = 1

\* A step of a cancellable stream touches one subscription only: an
\* unsubscribe or an error of one subscription changes nothing of another,
\* its cancellation handle included, and afterwards every subscription that
\* neither unsubscribed nor errored has received exactly the values the
\* engine passed to its own callback, in order.
IndependentStep ==
  stream \in CancellableOps =>
    /\ \A s \in SubIds : \A t \in SubIds \ {s} :
         subs'[s] # subs[s] => subs'[t] = subs[t]
    /\ \A s \in SubIds :
         (subs'[s].unsubCalls = 0 /\ ~HasError(subs'[s].fired)) =>
           /\ subs'[s].cancelCalls = 0
           /\ subs'[s].seen =
                [i \in 1..Len(subs'[s].fired) |->
                   N("next", subs'[s].fired[i].arg)]

\* C26: concurrent subscriptions to one cancellable stream are independent
\* under every interleaving: unsubscribing or erroring one invokes only the
\* cancellation handle of its own registration, and the other keeps
\* receiving every value the engine delivers to its own callback, in order.
C26_SubscriptionsIndependent ==
  [][IndependentStep]_vars

C26_Witness ==
  /\ stream \in CancellableOps
  /\ subs[1].unsubCalls >= 1
  /\ subs[1].cancelCalls = 1
  /\ subs[2].unsubCalls = 0
  /\ subs[2].cancelCalls = 0
  /\ Len(subs[2].fired) = 2
  /\ subs[2].seen = <<N("next", "v1"), N("next", "v2")>>

====
